---- MODULE Spec2Model ----
(***************************************************************************)
(* TraceMind: the compaction cycle (clustering, merging, pruning) of       *)
(* backend/app/services/compaction.py over the vector store of             *)
(* backend/app/services/chroma_client.py, triggered by the timer of        *)
(* backend/app/main.py and by POST /compact of backend/app/api/routes.py.  *)
(*                                                                         *)
(* Numbers.  Embedding components are fixed-point numbers with              *)
(* denominator 25 (a unit vector has x*x + y*y = 625); importance is in     *)
(* tenths; the clock and every timestamp are in days; similarity            *)
(* thresholds are in 25ths (0.92 = 23/25, 0.88 = 22/25); the recency        *)
(* weight is in hundredths.                                                 *)
(***************************************************************************)
EXTENDS Integers, Sequences, FiniteSets, TLC

VARIABLES
    store,         \* the Chroma collection: id -> [document, embedding, metadata]
    nextId,        \* the next fresh uuid of add_memory
    now,           \* the wall clock, in days
    log,           \* the content of merge_log.json
    pc,            \* per trigger: where its run_compaction call stands
    before_count,  \* run_compaction's local before_count
    all_data,      \* run_compaction's local all_data (the snapshot)
    clusters,      \* run_compaction's local clusters
    ci,            \* index of the cluster the merge loop is at
    new_id,        \* _merge_cluster's local new_id: <<>> before add_memory returned
    merge_events,  \* run_compaction's local merge_events; after an exception,
                   \* history: what the cycle had accumulated when it raised
    to_delete,     \* _delete_redundant_memories' local to_delete
    log_buf,       \* log_merge's local events (read, not yet written back)
    result,        \* what the caller of run_compaction received
    deleted,       \* history: ids a compaction delete call removed from the store
    failures,      \* history: how many store or log calls have raised
    ran,           \* history: some run_compaction call has returned its stats
    absorbed,      \* history: per id ever stored, the ingested entries it stands for
    emitted,       \* history: the events whose log_merge call has returned
    recalled,      \* what the last GET /recall answered, and from which candidates
    similarity,    \* the last call of cosine_similarity on its own: arguments, outcome
    settled        \* history: <<the clock>> when a cycle last came to the end of
                   \* its work without a merge or a deletion, <<>> before

vars == <<store, nextId, now, log, pc, before_count, all_data, clusters, ci,
          new_id, merge_events, to_delete, log_buf, result, deleted, failures,
          ran, absorbed, emitted, recalled, similarity, settled>>

(***************************************************************************)
(* Program constants.                                                      *)
(***************************************************************************)
SIM_THRESHOLD == 23
DELETE_SIMILARITY_THRESHOLD == 22
MIN_IMPORTANCE_KEEP == 2
MAX_CLUSTER_SIZE == 10
DECAY_RATE == 1
DELETE_AGE_THRESHOLD_DAYS == 30
SNIPPET_CHARS == 100

\* The two triggers of run_compaction: the scheduler's job thread and the
\* event loop that serves POST /compact.
Procs == {"timer", "api"}

(***************************************************************************)
(* Bounds of the model.                                                    *)
(***************************************************************************)
MaxIds == 4
MaxPersisted == 3
MaxLong == 11
MaxFailures == 1
MaxNow == 45
ClockStep == 45
ClockAhead == 10

(***************************************************************************)
(* Vectors and cosine similarity.                                          *)
(***************************************************************************)
Vec(x, y) == [x |-> x, y |-> y, nan |-> FALSE]

\* What numpy yields for a division by a zero norm: every component NaN.
NaNVec == [x |-> 0, y |-> 0, nan |-> TRUE]

Dot(a, b) == a.x * b.x + a.y * b.y

Norm2(a) == Dot(a, a)

\* cosine_similarity(a, b) >= t / 25.  A NaN operand or a zero norm makes
\* the quotient NaN, and every comparison with NaN is false.
CosGE(a, b, t) ==
    /\ ~a.nan /\ ~b.nan
    /\ Norm2(a) > 0 /\ Norm2(b) > 0
    /\ Dot(a, b) > 0
    /\ 625 * Dot(a, b) * Dot(a, b) >= t * t * Norm2(a) * Norm2(b)

Max(a, b) == IF a >= b THEN a ELSE b

RECURSIVE ISqrtBin(_, _, _)
ISqrtBin(n, lo, hi) ==
    IF lo >= hi THEN lo
    ELSE LET mid == (lo + hi + 1) \div 2
         IN  IF mid * mid <= n THEN ISqrtBin(n, mid, hi)
                               ELSE ISqrtBin(n, lo, mid - 1)

\* floor of the square root (np.linalg.norm, to the fixed-point grid)
ISqrt(n) == ISqrtBin(n, 0, 46000)

\* a / b rounded to the nearest integer, b > 0
RoundDiv(a, b) ==
    IF a >= 0 THEN (2 * a + b) \div (2 * b)
              ELSE 0 - ((2 * (0 - a) + b) \div (2 * b))

(***************************************************************************)
(* Time.                                                                   *)
(***************************************************************************)
\* calculate_age_days: now - timestamp, in days (negative for a timestamp
\* in the future).
calculate_age_days(ts) == now - ts

\* max(0, 1 - DECAY_RATE * age_days), in hundredths
recency_weight(age) == Max(0, 100 - DECAY_RATE * age)

(***************************************************************************)
(* The embedding provider: a deterministic function of the text.          *)
(***************************************************************************)
\* Texts "a".."d" lie close together: a.b = 0.96, b.c = 0.936, a.c = 0.80,
\* a.d = 0.917 (between the two thresholds), b.d = 0.77.  Texts "p0".."p9"
\* lie on a half circle, each within 0.92 of the next, "p0" opposite "p9".
Texts == {"a", "b", "c", "d"}

ArcTexts == <<"p0", "p1", "p2", "p3", "p4", "p5", "p6", "p7", "p8", "p9">>

embed_single(t) ==
    CASE t = "a"  -> Vec(25, 0)
      [] t = "b"  -> Vec(24, 7)
      [] t = "c"  -> Vec(20, 15)
      [] t = "d"  -> Vec(23, -10)
      [] t = "p0" -> Vec(25, 0)
      [] t = "p1" -> Vec(24, 9)
      [] t = "p2" -> Vec(19, 16)
      [] t = "p3" -> Vec(12, 21)
      [] t = "p4" -> Vec(4, 24)
      [] t = "p5" -> Vec(-4, 24)
      [] t = "p6" -> Vec(-12, 21)
      [] t = "p7" -> Vec(-19, 16)
      [] t = "p8" -> Vec(-24, 9)
      [] t = "p9" -> Vec(-25, 0)
      [] OTHER    -> Vec(0, 25)

(***************************************************************************)
(* Metadata.                                                               *)
(***************************************************************************)
\* An optional key of a metadata dict is a sequence: <<>> when the key is
\* absent, <<v>> when it is present with value v.
create_metadata(importance, topic, source) ==
    [timestamp |-> now, importance |-> importance, source |-> source,
     merge_count |-> 0, last_merged_at |-> <<>>, topic |-> topic]

(***************************************************************************)
(* The store (ChromaService).                                              *)
(***************************************************************************)
RECURSIVE SortedIds(_)
SortedIds(S) ==
    IF S = {} THEN <<>>
    ELSE LET m == CHOOSE x \in S : \A y \in S : x <= y
         IN  <<m>> \o SortedIds(S \ {m})

count(st) == Cardinality(DOMAIN st)

\* collection.get(include=[documents, metadatas, embeddings]): parallel
\* lists, in insertion order.
get_all_memories(st) ==
    LET ids == SortedIds(DOMAIN st)
    IN  [ids        |-> ids,
         embeddings |-> [k \in 1..Len(ids) |-> st[ids[k]].embedding],
         metadatas  |-> [k \in 1..Len(ids) |-> st[ids[k]].metadata],
         documents  |-> [k \in 1..Len(ids) |-> st[ids[k]].document]]

\* (mutant) the lowest id that is free now, used before or not
uuid4_recycled ==
    CHOOSE i \in 1..nextId : i \notin DOMAIN store
                              /\ \A j \in 1..(i - 1) : j \in DOMAIN store

\* uuid.uuid4(): an id no entry ever had
uuid4 == nextId

\* (mutant) the entry written over the newest stored one, as update_memory
\* would, when there is one
add_memory_in_place(st, id, text, embedding, metadata) ==
    LET e == [document |-> text, embedding |-> embedding,
              metadata |-> metadata]
    IN  IF DOMAIN st = {} THEN (id :> e)
        ELSE [st EXCEPT ![CHOOSE i \in DOMAIN st :
                             \A j \in DOMAIN st : j <= i] = e]

\* add_memory: a fresh uuid, then collection.add.
add_memory(st, id, text, embedding, metadata) ==
    [i \in DOMAIN st \cup {id} |->
        IF i = id THEN [document |-> text, embedding |-> embedding,
                        metadata |-> metadata]
                  ELSE st[i]]

SeqToSet(s) == {s[k] : k \in 1..Len(s)}

\* (mutant) the ids deleted, and with them every entry stored after them
delete_memories_and_newer(st, ids) ==
    [i \in {j \in DOMAIN st \ SeqToSet(ids) :
                \A m \in SeqToSet(ids) : j < m} |-> st[i]]

\* (mutant) the delete call dropped
delete_memories_dropped(st, ids) == st

\* delete_memories: deleting an id that is not in the collection is a no-op.
delete_memories(st, ids) ==
    [i \in DOMAIN st \ SeqToSet(ids) |-> st[i]]

(***************************************************************************)
(* Clustering (CompactionService._build_clusters).                         *)
(***************************************************************************)
\* A new cluster holding the seed i; its document is read from the live
\* collection.
NewCluster(d, st, i) ==
    [ids        |-> <<d.ids[i]>>,
     embeddings |-> <<d.embeddings[i]>>,
     documents  |-> <<st[d.ids[i]].document>>,
     metadatas  |-> <<d.metadatas[i]>>]

\* (mutant) the member put in front of the cluster's lists
AppendMemberInFront(c, d, st, j) ==
    [ids        |-> <<d.ids[j]>> \o c.ids,
     embeddings |-> <<d.embeddings[j]>> \o c.embeddings,
     documents  |-> <<st[d.ids[j]].document>> \o c.documents,
     metadatas  |-> <<d.metadatas[j]>> \o c.metadatas]

AppendMember(c, d, st, j) ==
    [ids        |-> Append(c.ids, d.ids[j]),
     embeddings |-> Append(c.embeddings, d.embeddings[j]),
     documents  |-> Append(c.documents, st[d.ids[j]].document),
     metadatas  |-> Append(c.metadatas, d.metadatas[j])]

\* (mutant) the inner loop without the MAX_CLUSTER_SIZE break
RECURSIVE ScanCandidatesNoCap(_, _, _, _, _)
ScanCandidatesNoCap(d, st, j, c, clustered) ==
    IF j > Len(d.ids) THEN [cluster |-> c, clustered |-> clustered]
    ELSE IF d.ids[j] \in clustered
         THEN ScanCandidatesNoCap(d, st, j + 1, c, clustered)
    ELSE LET hit == \E k \in 1..Len(c.embeddings) :
                        CosGE(d.embeddings[j], c.embeddings[k], SIM_THRESHOLD)
         IN  ScanCandidatesNoCap(d, st, j + 1,
                 IF hit THEN AppendMember(c, d, st, j) ELSE c,
                 IF hit THEN clustered \cup {d.ids[j]} ELSE clustered)

\* (mutant) the inner loop comparing a candidate with the seed only
RECURSIVE ScanCandidatesSeedOnly(_, _, _, _, _)
ScanCandidatesSeedOnly(d, st, j, c, clustered) ==
    IF j > Len(d.ids) THEN [cluster |-> c, clustered |-> clustered]
    ELSE IF d.ids[j] \in clustered
         THEN ScanCandidatesSeedOnly(d, st, j + 1, c, clustered)
    ELSE LET hit == CosGE(d.embeddings[j], c.embeddings[1], SIM_THRESHOLD)
             c2  == IF hit THEN AppendMember(c, d, st, j) ELSE c
             cl2 == IF hit THEN clustered \cup {d.ids[j]} ELSE clustered
         IN  IF Len(c2.ids) >= MAX_CLUSTER_SIZE
             THEN [cluster |-> c2, clustered |-> cl2]
             ELSE ScanCandidatesSeedOnly(d, st, j + 1, c2, cl2)

\* The inner loop, for j in range(i + 1, n), from position j on.
RECURSIVE ScanCandidates(_, _, _, _, _)
ScanCandidates(d, st, j, c, clustered) ==
    IF j > Len(d.ids) THEN [cluster |-> c, clustered |-> clustered]
    ELSE IF d.ids[j] \in clustered
         THEN ScanCandidates(d, st, j + 1, c, clustered)
    ELSE LET hit == \E k \in 1..Len(c.embeddings) :
                        CosGE(d.embeddings[j], c.embeddings[k], SIM_THRESHOLD)
             c2  == IF hit THEN AppendMember(c, d, st, j) ELSE c
             cl2 == IF hit THEN clustered \cup {d.ids[j]} ELSE clustered
         IN  IF Len(c2.ids) >= MAX_CLUSTER_SIZE
             THEN [cluster |-> c2, clustered |-> cl2]
             ELSE ScanCandidates(d, st, j + 1, c2, cl2)

\* The outer loop, for i in range(n), from position i on.
RECURSIVE BuildFrom(_, _, _, _, _)
BuildFrom(d, st, i, clustered, acc) ==
    IF i > Len(d.ids) THEN acc
    ELSE IF d.ids[i] \in clustered
         THEN BuildFrom(d, st, i + 1, clustered, acc)
    ELSE LET r == ScanCandidates(d, st, i + 1, NewCluster(d, st, i), clustered)
         IN  IF Len(r.cluster.ids) >= 2
             THEN BuildFrom(d, st, i + 1,
                            r.clustered \cup SeqToSet(r.cluster.ids),
                            Append(acc, r.cluster))
             ELSE BuildFrom(d, st, i + 1, r.clustered, acc)

_build_clusters(d, st) == BuildFrom(d, st, 1, {}, <<>>)

(***************************************************************************)
(* Merging (CompactionService._merge_cluster), up to the store calls.      *)
(***************************************************************************)
RECURSIVE SumSeq(_)
SumSeq(s) == IF s = <<>> THEN 0 ELSE Head(s) + SumSeq(Tail(s))

RECURSIVE MaxSeq(_)
MaxSeq(s) == IF Len(s) = 1 THEN s[1] ELSE Max(s[1], MaxSeq(Tail(s)))

\* list.index(x): the first position holding x
IndexOf(s, x) == CHOOSE k \in 1..Len(s) : s[k] = x /\ \A m \in 1..(k - 1) : s[m] # x

\* weight = importance * recency_weight, in thousandths
RawWeights(metadatas) ==
    [k \in 1..Len(metadatas) |->
        metadatas[k].importance
          * recency_weight(calculate_age_days(metadatas[k].timestamp))]

\* weights / weights.sum(), in thousandths; all ones when the sum is zero
NormalizedWeights(metadatas) ==
    LET w  == RawWeights(metadatas)
        w1 == IF SumSeq(w) = 0 THEN [k \in 1..Len(w) |-> 1] ELSE w
    IN  [k \in 1..Len(w1) |-> RoundDiv(1000 * w1[k], SumSeq(w1))]

\* np.sum(embeddings * weights[:, newaxis], axis=0); a NaN member makes
\* the sum NaN
WeightedSum(embeddings, w) ==
    IF \E k \in 1..Len(embeddings) : embeddings[k].nan THEN NaNVec
    ELSE Vec(SumSeq([k \in 1..Len(w) |-> w[k] * embeddings[k].x]),
             SumSeq([k \in 1..Len(w) |-> w[k] * embeddings[k].y]))

\* merged_embedding / np.linalg.norm(merged_embedding): a zero sum divided
\* by its zero norm is NaN in every component (numpy warns, does not raise)
Normalize(v) ==
    IF v.nan \/ Norm2(v) = 0 THEN NaNVec
    ELSE LET norm == ISqrt(Norm2(v))
         IN  Vec(RoundDiv(25 * v.x, norm), RoundDiv(25 * v.y, norm))

merged_embedding(cluster) ==
    Normalize(WeightedSum(cluster.embeddings,
                          NormalizedWeights(cluster.metadatas)))

Timestamps(cluster) ==
    [k \in 1..Len(cluster.metadatas) |-> cluster.metadatas[k].timestamp]

\* (mutant) the last position holding the latest timestamp
newest_idx_last(cluster) ==
    CHOOSE k \in 1..Len(cluster.metadatas) :
        /\ Timestamps(cluster)[k] = MaxSeq(Timestamps(cluster))
        /\ \A m \in (k + 1)..Len(cluster.metadatas) :
               Timestamps(cluster)[m] # Timestamps(cluster)[k]

newest_idx(cluster) ==
    IndexOf(Timestamps(cluster), MaxSeq(Timestamps(cluster)))

representative_text(cluster) == cluster.documents[newest_idx(cluster)]

\* (mutant) the merged metadata without last_merged_at
merged_metadata_unstamped(cluster) ==
    [timestamp      |-> Timestamps(cluster)[newest_idx(cluster)],
     importance     |-> MaxSeq([k \in 1..Len(cluster.metadatas) |->
                                    cluster.metadatas[k].importance]),
     source         |-> "compaction",
     last_merged_at |-> <<>>,
     merge_count    |-> SumSeq([k \in 1..Len(cluster.metadatas) |->
                                    cluster.metadatas[k].merge_count])
                          + Len(cluster.ids) - 1,
     topic          |-> cluster.metadatas[newest_idx(cluster)].topic]

\* (mutant) merge_count counting the cluster's members, not the absorbed
merged_metadata_counting_members(cluster) ==
    [timestamp      |-> Timestamps(cluster)[newest_idx(cluster)],
     importance     |-> MaxSeq([k \in 1..Len(cluster.metadatas) |->
                                    cluster.metadatas[k].importance]),
     source         |-> "compaction",
     last_merged_at |-> <<now>>,
     merge_count    |-> SumSeq([k \in 1..Len(cluster.metadatas) |->
                                    cluster.metadatas[k].merge_count])
                          + Len(cluster.ids),
     topic          |-> cluster.metadatas[newest_idx(cluster)].topic]

merged_metadata(cluster) ==
    [timestamp      |-> Timestamps(cluster)[newest_idx(cluster)],
     importance     |-> MaxSeq([k \in 1..Len(cluster.metadatas) |->
                                    cluster.metadatas[k].importance]),
     source         |-> "compaction",
     last_merged_at |-> <<now>>,
     merge_count    |-> SumSeq([k \in 1..Len(cluster.metadatas) |->
                                    cluster.metadatas[k].merge_count])
                          + Len(cluster.ids) - 1,
     topic          |-> cluster.metadatas[newest_idx(cluster)].topic]

(***************************************************************************)
(* Pruning (CompactionService._delete_redundant_memories), up to the       *)
(* store call.                                                             *)
(***************************************************************************)
\* (mutant) the inner loop without the i == j skip
HasSimilarSurvivorOrSelf(d, i) ==
    \E j \in 1..Len(d.ids) :
        CosGE(d.embeddings[i], d.embeddings[j], DELETE_SIMILARITY_THRESHOLD)

\* The inner loop: some other position holds an embedding at least
\* DELETE_SIMILARITY_THRESHOLD similar to position i.
HasSimilarSurvivor(d, i) ==
    \E j \in 1..Len(d.ids) :
        /\ i # j
        /\ CosGE(d.embeddings[i], d.embeddings[j], DELETE_SIMILARITY_THRESHOLD)

\* (mutant) the thresholds included
MeetsDeletionCriteriaInclusive(meta) ==
    /\ meta.importance <= MIN_IMPORTANCE_KEEP
    /\ calculate_age_days(meta.timestamp) >= DELETE_AGE_THRESHOLD_DAYS

MeetsDeletionCriteria(meta) ==
    /\ meta.importance < MIN_IMPORTANCE_KEEP
    /\ calculate_age_days(meta.timestamp) > DELETE_AGE_THRESHOLD_DAYS

\* The outer loop, from position i on: the list to_delete.
RECURSIVE ToDeleteFrom(_, _)
ToDeleteFrom(d, i) ==
    IF i > Len(d.ids) THEN <<>>
    ELSE IF MeetsDeletionCriteria(d.metadatas[i]) /\ HasSimilarSurvivor(d, i)
         THEN <<d.ids[i]>> \o ToDeleteFrom(d, i + 1)
         ELSE ToDeleteFrom(d, i + 1)

\* (mutant) the decision taken from the collection as it is now
_delete_redundant_memories_live(d) == ToDeleteFrom(get_all_memories(store), 1)

_delete_redundant_memories(d) == ToDeleteFrom(d, 1)

(***************************************************************************)
(* run_compaction, one action per store or log call.                       *)
(***************************************************************************)
NoData == [ids |-> <<>>, embeddings |-> <<>>, metadatas |-> <<>>,
           documents |-> <<>>]

\* The caller has received nothing (yet).
NoResult == [kind |-> "none", before_count |-> 0, after_count |-> 0,
             clusters_merged |-> 0, items_deleted |-> 0,
             merge_events |-> <<>>]

\* The caller received an exception: compact() turns it into an HTTP 500
\* whose detail is the exception's text, scheduled_compaction prints it.
ErrorResult == [kind |-> "error", before_count |-> 0, after_count |-> 0,
                clusters_merged |-> 0, items_deleted |-> 0,
                merge_events |-> <<>>]

\* (mutant) items_deleted as the net change of the count
StatsNetDeleted(before, after, events, n_deleted) ==
    [kind |-> "stats", before_count |-> before, after_count |-> after,
     clusters_merged |-> Len(events), items_deleted |-> before - after,
     merge_events |-> events]

Stats(before, after, events, n_deleted) ==
    [kind |-> "stats", before_count |-> before, after_count |-> after,
     clusters_merged |-> Len(events), items_deleted |-> n_deleted,
     merge_events |-> events]

\* (mutant) the early return with after_count read from the store
NoOpStatsRecounted(before) == Stats(before, count(store), <<>>, 0)

\* The record of the early return: after_count is before_count.
NoOpStats(before) == Stats(before, before, <<>>, 0)

\* The locals of a finished call are gone.
DropWorkLocals(p) ==
    /\ before_count' = [before_count EXCEPT ![p] = 0]
    /\ all_data' = [all_data EXCEPT ![p] = NoData]
    /\ clusters' = [clusters EXCEPT ![p] = <<>>]
    /\ ci' = [ci EXCEPT ![p] = 0]
    /\ new_id' = [new_id EXCEPT ![p] = <<>>]
    /\ to_delete' = [to_delete EXCEPT ![p] = <<>>]
    /\ log_buf' = [log_buf EXCEPT ![p] = <<>>]

DropLocals(p) ==
    /\ DropWorkLocals(p)
    /\ merge_events' = [merge_events EXCEPT ![p] = <<>>]

\* Where the merge loop goes after cluster k.
AfterCluster(p, k) == IF k < Len(clusters[p]) THEN "merge" ELSE "prune"

\* A trigger fires; before_count = self.chroma.count().
Begin(p) ==
    /\ pc[p] = "idle"
    /\ pc' = [pc EXCEPT ![p] = "fetch"]
    /\ before_count' = [before_count EXCEPT ![p] = count(store)]
    /\ UNCHANGED <<store, nextId, now, log, all_data, clusters, ci, new_id,
                   merge_events, to_delete, log_buf, result, deleted, failures, ran>>
    /\ UNCHANGED <<absorbed, emitted>>
    /\ UNCHANGED <<recalled, similarity, settled>>

\* all_data = self.chroma.get_all_memories(), and the early return.
Fetch(p) ==
    /\ pc[p] = "fetch"
    /\ LET d == get_all_memories(store)
       IN  IF Len(d.ids) < 2
           THEN /\ pc' = [pc EXCEPT ![p] = "done"]
                /\ result' = [result EXCEPT ![p] = NoOpStats(before_count[p])]
                /\ DropLocals(p)
                /\ ran' = TRUE
                /\ settled' = <<now>>
           ELSE /\ pc' = [pc EXCEPT ![p] = "cluster"]
                /\ all_data' = [all_data EXCEPT ![p] = d]
                /\ UNCHANGED <<before_count, clusters, ci, new_id,
                               merge_events, to_delete, log_buf, result,
                               ran, settled>>
    /\ UNCHANGED <<store, nextId, now, log, deleted, failures>>
    /\ UNCHANGED <<absorbed, emitted>>
    /\ UNCHANGED <<recalled, similarity>>

\* Every id of the snapshot is read once from the live collection.
AllLive(p) == SeqToSet(all_data[p].ids) \subseteq DOMAIN store

\* clusters = self._build_clusters(...)
Cluster(p) ==
    /\ pc[p] = "cluster"
    /\ AllLive(p)
    /\ LET cs == _build_clusters(all_data[p], store)
       IN  /\ clusters' = [clusters EXCEPT ![p] = cs]
           /\ ci' = [ci EXCEPT ![p] = 1]
           /\ pc' = [pc EXCEPT ![p] = IF cs = <<>> THEN "prune" ELSE "merge"]
    /\ UNCHANGED <<store, nextId, now, log, before_count, all_data, new_id,
                   merge_events, to_delete, log_buf, result, deleted, failures, ran>>
    /\ UNCHANGED <<absorbed, emitted>>
    /\ UNCHANGED <<recalled, similarity, settled>>

\* The caller of run_compaction gets the exception, and nothing else.
Raise(p) ==
    /\ pc' = [pc EXCEPT ![p] = "failed"]
    /\ result' = [result EXCEPT ![p] = ErrorResult]
    /\ DropWorkLocals(p)
    /\ UNCHANGED merge_events

\* collection.get(ids=[id])["documents"][0] on an id that another cycle
\* deleted since the snapshot: IndexError.
ClusterIndexError(p) ==
    /\ pc[p] = "cluster"
    /\ ~AllLive(p)
    /\ Raise(p)
    /\ UNCHANGED <<store, nextId, now, log, deleted, failures, ran>>
    /\ UNCHANGED <<absorbed, emitted>>
    /\ UNCHANGED <<recalled, similarity, settled>>

\* _merge_cluster up to new_id = self.chroma.add_memory(...)
\* (limit bounds the uuids the model hands out)
MergeAdd(p, limit) ==
    /\ pc[p] = "merge"
    /\ nextId <= limit
    /\ LET c == clusters[p][ci[p]]
       IN  store' = add_memory(store, uuid4, representative_text(c),
                               merged_embedding(c), merged_metadata(c))
    /\ new_id' = [new_id EXCEPT ![p] = <<uuid4>>]
    /\ nextId' = nextId + 1
    /\ pc' = [pc EXCEPT ![p] = "merge_del"]
    /\ UNCHANGED <<now, log, before_count, all_data, clusters, ci,
                   merge_events, to_delete, log_buf, result, deleted, failures, ran>>
    /\ absorbed' = absorbed @@ (uuid4 :>
               UNION {absorbed[i] : i \in SeqToSet(clusters[p][ci[p]].ids)})
    /\ UNCHANGED emitted
    /\ UNCHANGED <<recalled, similarity, settled>>

\* The number of characters of a text of the model.
TextLength(t) == IF t \in Texts THEN 1 ELSE 2

\* text[:SNIPPET_CHARS]: the first characters of the text, all of them when
\* it is not longer
Snippet(t) ==
    [of    |-> t,
     chars |-> IF TextLength(t) < SNIPPET_CHARS THEN TextLength(t)
                                               ELSE SNIPPET_CHARS]

\* (mutant) an event that names only the seed of the cluster
MergeEventSeedOnly(c, id) ==
    [timestamp           |-> now,
     cluster_size        |-> Len(c.ids),
     merged_ids          |-> <<c.ids[1]>>,
     new_id              |-> id,
     representative_text |-> Snippet(c.documents[1])]

\* The event of run_compaction: its text is cluster["documents"][0][:100].
MergeEvent(c, id) ==
    [timestamp           |-> now,
     cluster_size        |-> Len(c.ids),
     merged_ids          |-> c.ids,
     new_id              |-> id,
     representative_text |-> Snippet(c.documents[1])]

\* self.chroma.delete_memories(ids), the return of _merge_cluster, and
\* merge_events.append(event)
MergeDel(p) ==
    /\ pc[p] = "merge_del"
    /\ LET c == clusters[p][ci[p]]
       IN  /\ store' = delete_memories(store, c.ids)
           /\ deleted' = deleted \cup (SeqToSet(c.ids) \cap DOMAIN store)
           /\ merge_events' = [merge_events EXCEPT ![p] =
                  Append(@, MergeEvent(c, new_id[p][1]))]
    /\ pc' = [pc EXCEPT ![p] = "log_read"]
    /\ UNCHANGED <<nextId, now, log, before_count, all_data, clusters, ci,
                   new_id, to_delete, log_buf, result, failures, ran>>
    /\ UNCHANGED <<absorbed, emitted>>
    /\ UNCHANGED <<recalled, similarity, settled>>

\* log_merge: events = self.read_log()
LogRead(p) ==
    /\ pc[p] = "log_read"
    /\ log_buf' = [log_buf EXCEPT ![p] = log]
    /\ pc' = [pc EXCEPT ![p] = "log_write"]
    /\ UNCHANGED <<store, nextId, now, log, before_count, all_data, clusters,
                   ci, new_id, merge_events, to_delete, result, deleted,
                   failures, ran>>
    /\ UNCHANGED <<absorbed, emitted>>
    /\ UNCHANGED <<recalled, similarity, settled>>

\* log_merge: events.append(event); json.dump(events, f); then the next
\* cluster of the loop
LogWrite(p) ==
    /\ pc[p] = "log_write"
    /\ log' = Append(log_buf[p], merge_events[p][Len(merge_events[p])])
    /\ log_buf' = [log_buf EXCEPT ![p] = <<>>]
    /\ new_id' = [new_id EXCEPT ![p] = <<>>]
    /\ pc' = [pc EXCEPT ![p] = AfterCluster(p, ci[p])]
    /\ ci' = [ci EXCEPT ![p] = @ + 1]
    /\ UNCHANGED <<store, nextId, now, before_count, all_data, clusters,
                   merge_events, to_delete, result, deleted, failures, ran>>
    /\ emitted' = emitted \cup {merge_events[p][Len(merge_events[p])]}
    /\ UNCHANGED absorbed
    /\ UNCHANGED <<recalled, similarity, settled>>

\* deleted_count = self._delete_redundant_memories(all_data)
Prune(p) ==
    /\ pc[p] = "prune"
    /\ LET td == _delete_redundant_memories(all_data[p])
       IN  /\ store' = delete_memories(store, td)
           /\ deleted' = deleted \cup (SeqToSet(td) \cap DOMAIN store)
           /\ to_delete' = [to_delete EXCEPT ![p] = td]
           /\ settled' = IF merge_events[p] = <<>> /\ td = <<>>
                         THEN <<now>> ELSE settled
    /\ pc' = [pc EXCEPT ![p] = "recount"]
    /\ UNCHANGED <<nextId, now, log, before_count, all_data, clusters, ci,
                   new_id, merge_events, log_buf, result, failures, ran>>
    /\ UNCHANGED <<absorbed, emitted>>
    /\ UNCHANGED <<recalled, similarity>>

\* after_count = self.chroma.count(), and return stats
Recount(p) ==
    /\ pc[p] = "recount"
    /\ result' = [result EXCEPT ![p] =
           Stats(before_count[p], count(store), merge_events[p],
                 Len(to_delete[p]))]
    /\ pc' = [pc EXCEPT ![p] = "done"]
    /\ DropLocals(p)
    /\ ran' = TRUE
    /\ UNCHANGED <<store, nextId, now, log, deleted, failures>>
    /\ UNCHANGED <<absorbed, emitted>>
    /\ UNCHANGED <<recalled, similarity, settled>>

\* A store call or a log file access raises; nothing in run_compaction
\* catches it.
StoreCallPcs == {"fetch", "merge", "merge_del", "log_read", "log_write",
                 "prune", "recount"}

Fail(p) ==
    /\ pc[p] \in StoreCallPcs
    /\ failures < MaxFailures
    /\ failures' = failures + 1
    /\ Raise(p)
    /\ UNCHANGED <<store, nextId, now, log, deleted, ran>>
    /\ UNCHANGED <<absorbed, emitted>>
    /\ UNCHANGED <<recalled, similarity, settled>>

\* The caller is done with what it received; the trigger can fire again.
Return(p) ==
    /\ pc[p] \in {"done", "failed"}
    /\ pc' = [pc EXCEPT ![p] = "idle"]
    /\ result' = [result EXCEPT ![p] = NoResult]
    /\ merge_events' = [merge_events EXCEPT ![p] = <<>>]
    /\ UNCHANGED <<store, nextId, now, log, before_count, all_data, clusters,
                   ci, new_id, to_delete, log_buf, deleted, failures, ran>>
    /\ UNCHANGED <<absorbed, emitted>>
    /\ UNCHANGED <<recalled, similarity, settled>>

(***************************************************************************)
(* The other handlers and the clock.                                       *)
(***************************************************************************)
\* POST /remember.  It is served by the event loop, which a running
\* POST /compact occupies until run_compaction returns.
remember(text, importance, topic) ==
    /\ pc["api"] = "idle"
    /\ nextId <= MaxIds
    /\ store' = add_memory(store, uuid4, text, embed_single(text),
                           create_metadata(importance, topic, "manual"))
    /\ nextId' = nextId + 1
    /\ UNCHANGED <<now, log, pc, before_count, all_data, clusters, ci,
                   new_id, merge_events, to_delete, log_buf, result, deleted, failures, ran>>
    /\ absorbed' = absorbed @@ (uuid4 :> {uuid4})
    /\ UNCHANGED emitted
    /\ UNCHANGED <<recalled, similarity, settled>>

Tick ==
    /\ now + ClockStep <= MaxNow
    /\ now' = now + ClockStep
    /\ UNCHANGED <<store, nextId, log, pc, before_count, all_data, clusters,
                   ci, new_id, merge_events, to_delete, log_buf, result, deleted, failures, ran>>
    /\ UNCHANGED <<absorbed, emitted>>
    /\ UNCHANGED <<recalled, similarity, settled>>

(***************************************************************************)
(* GET /recall.                                                            *)
(***************************************************************************)
\* recall's local alpha, in tenths, and decay_rate, in hundredths per day
alpha == 7
decay_rate == 1

\* No GET /recall has been answered.
NoRecall ==
    [kind |-> "none", request |-> <<>>, retrieved |-> <<>>, results |-> <<>>]

\* The entries a where-filter on the topic lets through; no filter is <<>>.
Matching(st, where) ==
    {i \in DOMAIN st : where = <<>> \/ st[i].metadata.topic = where}

\* collection.query: approximate nearest neighbours, so any n_results of
\* the matching entries, in any order; all of them when there are fewer.
query_memories(st, n_results, where) ==
    LET M == Matching(st, where)
        n == IF n_results < Cardinality(M) THEN n_results ELSE Cardinality(M)
    IN  {s \in [1..n -> M] : \A i, j \in 1..n : i # j => s[i] # s[j]}

\* cosine_similarity(query_embedding, embedding), in ten-thousandths; NaN
\* when a vector is NaN or has norm zero.
raw_similarity(q, e) ==
    IF q.nan \/ e.nan \/ Norm2(q) = 0 \/ Norm2(e) = 0
    THEN [nan |-> TRUE, v |-> 0]
    ELSE [nan |-> FALSE,
          v |-> RoundDiv(10000 * Dot(q, e), ISqrt(Norm2(q) * Norm2(e)))]

(***************************************************************************)
(* cosine_similarity on its own.                                           *)
(***************************************************************************)
\* No call yet.
NoCall == [outcome |-> "none", a |-> NaNVec, b |-> NaNVec,
           value |-> [nan |-> TRUE, v |-> 0]]

\* float(np.dot(a, b) / (np.linalg.norm(a) * np.linalg.norm(b))), in
\* ten-thousandths.  The operands of the division are numpy scalars: a zero
\* divisor gives NaN and a RuntimeWarning, never an exception, and float()
\* of NaN is NaN.
cosine_similarity(a, b) ==
    IF a.nan \/ b.nan \/ Norm2(a) = 0 \/ Norm2(b) = 0
    THEN [outcome |-> "returned", a |-> a, b |-> b,
          value |-> [nan |-> TRUE, v |-> 0]]
    ELSE [outcome |-> "returned", a |-> a, b |-> b,
          value |-> [nan |-> FALSE,
                     v |-> RoundDiv(10000 * Dot(a, b),
                                    ISqrt(Norm2(a) * Norm2(b)))]]

\* The vectors the function is tried on: a grid that holds the zero vector,
\* unit vectors and others.
GridVectors == {Vec(x, y) : x, y \in {-25, 0, 7, 24, 25}}

CallCosine(a, b) ==
    /\ similarity' = cosine_similarity(a, b)
    /\ UNCHANGED <<store, nextId, now, log, pc, before_count, all_data,
                   clusters, ci, new_id, merge_events, to_delete, log_buf,
                   result, deleted, failures, ran, absorbed, emitted,
                   recalled, settled>>

\* (mutant) the decay applied whatever the request says
recall_recency_weight_always(age, decay) == Max(0, 100 - decay_rate * age)

\* max(0, 1 - decay_rate * age_days) if decay else 1.0, in hundredths
recall_recency_weight(age, decay) ==
    IF decay THEN Max(0, 100 - decay_rate * age) ELSE 100

\* raw_similarity * (alpha * recency_weight + (1 - alpha) * importance), in
\* ten-millionths
final_score(raw, recency, importance) ==
    IF raw.nan THEN raw
    ELSE [nan |-> FALSE,
          v |-> raw.v * (alpha * recency + (10 - alpha) * importance * 10)]

\* The RecallResult of one candidate.
RecallResult(st, id, q, decay) ==
    LET raw == raw_similarity(q, st[id].embedding)
        age == calculate_age_days(st[id].metadata.timestamp)
    IN  [id             |-> id,
         document       |-> st[id].document,
         metadata       |-> st[id].metadata,
         score          |-> final_score(raw, recall_recency_weight(age, decay),
                                        st[id].metadata.importance),
         raw_similarity |-> raw,
         age_days       |-> age]

\* (mutant) x put in front of the results that score as much
RECURSIVE InsertByScoreInFront(_, _)
InsertByScoreInFront(s, x) ==
    IF s = <<>> THEN <<x>>
    ELSE IF Head(s).score.v > x.score.v
         THEN <<Head(s)>> \o InsertByScoreInFront(Tail(s), x)
         ELSE <<x>> \o s

\* x put into the list s, sorted by falling score, behind the results that
\* score as much.
RECURSIVE InsertByScore(_, _)
InsertByScore(s, x) ==
    IF s = <<>> THEN <<x>>
    ELSE IF Head(s).score.v >= x.score.v
         THEN <<Head(s)>> \o InsertByScore(Tail(s), x)
         ELSE <<x>> \o s

\* scored_results.sort(key=lambda x: x.score, reverse=True): stable
RECURSIVE SortByScore(_)
SortByScore(s) ==
    IF s = <<>> THEN <<>>
    ELSE InsertByScore(SortByScore(SubSeq(s, 1, Len(s) - 1)), s[Len(s)])

\* (mutant) the whole sorted list
FirstKAll(s, k) == s

\* scored_results[:k]
FirstK(s, k) == SubSeq(s, 1, IF k < Len(s) THEN k ELSE Len(s))

\* What recall answers to request r from the candidates the store returned.
\* A NaN score cannot be written into the JSON response: the request ends
\* in an error.
RecallAnswer(st, cand, r) ==
    LET scored == [i \in 1..Len(cand) |->
                      RecallResult(st, cand[i], embed_single(r.q), r.decay)]
    IN  IF \E i \in 1..Len(scored) : scored[i].score.nan
        THEN [kind |-> "error", request |-> <<r>>, retrieved |-> cand,
              results |-> <<>>]
        ELSE [kind |-> "results", request |-> <<r>>, retrieved |-> cand,
              results |-> FirstK(SortByScore(scored), r.k)]

\* k_raw = min(k * 2, 100)
k_raw(k) == IF k * 2 < 100 THEN k * 2 ELSE 100

\* where_filter: none for the empty topic
where_filter(topic) == IF topic = "" THEN <<>> ELSE <<topic>>

\* GET /recall?q=..&k=..&decay=..&topic=..  It is served by the event loop,
\* like POST /remember.
recall(q, k, decay, topic) ==
    /\ pc["api"] = "idle"
    /\ \E cand \in query_memories(store, k_raw(k), where_filter(topic)) :
           recalled' = RecallAnswer(store, cand,
                           [q |-> q, k |-> k, decay |-> decay, topic |-> topic])
    /\ UNCHANGED <<store, nextId, now, log, pc, before_count, all_data,
                   clusters, ci, new_id, merge_events, to_delete, log_buf,
                   result, deleted, failures, ran, absorbed, emitted,
                   similarity, settled>>

(***************************************************************************)
(* The system: both triggers, ingest and the clock, from an empty store.   *)
(***************************************************************************)
EmptyStore == [i \in {} |-> NoResult]

InitLocals ==
    /\ pc = [p \in Procs |-> "idle"]
    /\ before_count = [p \in Procs |-> 0]
    /\ all_data = [p \in Procs |-> NoData]
    /\ clusters = [p \in Procs |-> <<>>]
    /\ ci = [p \in Procs |-> 0]
    /\ new_id = [p \in Procs |-> <<>>]
    /\ merge_events = [p \in Procs |-> <<>>]
    /\ to_delete = [p \in Procs |-> <<>>]
    /\ log_buf = [p \in Procs |-> <<>>]
    /\ result = [p \in Procs |-> NoResult]
    /\ recalled = NoRecall
    /\ similarity = NoCall
    /\ settled = <<>>

Init ==
    /\ store = EmptyStore
    /\ nextId = 1
    /\ now = 0
    /\ log = <<>>
    /\ deleted = {}
    /\ failures = 0
    /\ ran = FALSE
    /\ InitLocals
    /\ absorbed = [i \in DOMAIN store |-> {i}]
    /\ emitted = {}

\* The POST /remember requests that arrive.
Requests == {[text |-> "a", importance |-> 1, topic |-> <<>>]}

Ingest == \E r \in Requests : remember(r.text, r.importance, r.topic)

Next ==
    \/ \E p \in Procs : Begin(p)
    \/ \E p \in Procs : Fetch(p)
    \/ \E p \in Procs : Cluster(p)
    \/ \E p \in Procs : ClusterIndexError(p)
    \/ \E p \in Procs : MergeAdd(p, MaxIds)
    \/ \E p \in Procs : MergeDel(p)
    \/ \E p \in Procs : LogRead(p)
    \/ \E p \in Procs : LogWrite(p)
    \/ \E p \in Procs : Prune(p)
    \/ \E p \in Procs : Recount(p)
    \/ \E p \in Procs : Fail(p)
    \/ \E p \in Procs : Return(p)
    \/ Ingest
    \/ Tick

Spec == Init /\ [][Next]_vars

(***************************************************************************)
(* One trigger alone, over a collection that POST /remember requests of    *)
(* the days before have filled: POST /compact again and again, no ingest,  *)
(* no timer.                                                               *)
(***************************************************************************)
\* What an earlier POST /remember left in the collection.
PersistedEntry(k) ==
    [document  |-> k.text,
     embedding |-> embed_single(k.text),
     metadata  |-> [create_metadata(k.importance, k.topic, "manual")
                        EXCEPT !.timestamp = k.timestamp]]

PersistedStore(f) == [i \in DOMAIN f |-> PersistedEntry(f[i])]

KindT(t, i, ts, topic) ==
    [text |-> t, importance |-> i, timestamp |-> ts, topic |-> topic]

Kind(t, i, ts) == KindT(t, i, ts, <<>>)

\* The kinds of entry an earlier ingest left: importance below, at and above
\* MIN_IMPORTANCE_KEEP and zero, age at and beyond DELETE_AGE_THRESHOLD_DAYS.
SmallKinds(clock) ==
    LET old  == clock - DELETE_AGE_THRESHOLD_DAYS - 15
        edge == clock - DELETE_AGE_THRESHOLD_DAYS
    IN  {Kind("a", 1, old), Kind("a", MIN_IMPORTANCE_KEEP, old),
         Kind("a", 1, edge), Kind("b", 0, old), Kind("b", 5, old),
         Kind("c", 5, old), Kind("c", 1, old), Kind("d", 1, old),
         Kind("d", 5, old)}

\* a few entries of every kind, in every order
SmallStores(clock) ==
    {PersistedStore(f) :
        f \in UNION {[1..n -> SmallKinds(clock)] : n \in 0..MaxPersisted}}

\* many near-duplicates: more than one cluster can hold
LongStores(clock) ==
    {PersistedStore(f) :
        f \in [1..MaxLong -> {Kind(t, 5, clock - DELETE_AGE_THRESHOLD_DAYS)
                                : t \in {"a", "b"}}]}

\* the half circle, in order, each entry important or weightless, and
\* after it two copies of one more text
ArcStores(clock) ==
    {PersistedStore([i \in 1..(Len(ArcTexts) + 2) |->
                        IF i <= Len(ArcTexts)
                        THEN Kind(ArcTexts[i], g[i],
                                  clock - DELETE_AGE_THRESHOLD_DAYS)
                        ELSE Kind("p0", 5, clock - DELETE_AGE_THRESHOLD_DAYS)]) :
        g \in [1..Len(ArcTexts) -> {0, 5}]}

\* near-duplicates of two ages, with and without a topic
TopicStores(clock) ==
    {PersistedStore(f) :
        f \in [1..MaxPersisted ->
                  {KindT(t, 5, clock - DELETE_AGE_THRESHOLD_DAYS - d, tp) :
                      t \in {"a", "b"}, d \in {0, 75},
                      tp \in {<<>>, <<"ml">>}}]}

InitSolo ==
    /\ now = MaxNow
    /\ store \in SmallStores(now) \cup LongStores(now) \cup ArcStores(now)
                   \cup TopicStores(now)
    /\ nextId = count(store) + 1
    /\ log = <<>>
    /\ deleted = {}
    /\ failures = 0
    /\ ran = FALSE
    /\ InitLocals
    /\ absorbed = [i \in DOMAIN store |-> {i}]
    /\ emitted = {}

NextSolo ==
    \/ Begin("api")
    \/ Fetch("api")
    \/ Cluster("api")
    \/ MergeAdd("api", MaxLong + MaxIds)
    \/ MergeDel("api")
    \/ LogRead("api")
    \/ LogWrite("api")
    \/ Prune("api")
    \/ Recount("api")
    \/ Fail("api")
    \/ Return("api")

SpecSolo == InitSolo /\ [][NextSolo]_vars

(***************************************************************************)
(* Both triggers over a collection of two entries, with no ingest and a    *)
(* fixed clock: every cycle here is one during which no ingest runs.       *)
(***************************************************************************)
\* two entries, each a weak old one or an important one near it
OverlapStores(clock) ==
    LET old == clock - DELETE_AGE_THRESHOLD_DAYS - 15
    IN  {PersistedStore(f) :
            f \in [1..2 -> {Kind("a", 1, old), Kind("d", 5, old)}]}

InitOverlap ==
    /\ now = MaxNow
    /\ store \in OverlapStores(now)
    /\ nextId = 3
    /\ log = <<>>
    /\ deleted = {}
    /\ failures = 0
    /\ ran = FALSE
    /\ InitLocals
    /\ absorbed = [i \in DOMAIN store |-> {i}]
    /\ emitted = {}

NextOverlap ==
    \/ \E p \in Procs : Begin(p)
    \/ \E p \in Procs : Fetch(p)
    \/ \E p \in Procs : Cluster(p)
    \/ \E p \in Procs : ClusterIndexError(p)
    \/ \E p \in Procs : MergeAdd(p, MaxIds + 1)
    \/ \E p \in Procs : MergeDel(p)
    \/ \E p \in Procs : LogRead(p)
    \/ \E p \in Procs : LogWrite(p)
    \/ \E p \in Procs : Prune(p)
    \/ \E p \in Procs : Recount(p)
    \/ \E p \in Procs : Fail(p)
    \/ \E p \in Procs : Return(p)

SpecOverlap == InitOverlap /\ [][NextOverlap]_vars

(***************************************************************************)
(* The event loop serving POST /remember and GET /recall while the timer   *)
(* thread compacts, from an empty store.                                   *)
(***************************************************************************)
\* The GET /recall requests that arrive.
Queries == {[q |-> "a", k |-> 1, decay |-> TRUE, topic |-> ""]}

Recall == \E r \in Queries : recall(r.q, r.k, r.decay, r.topic)

NextServe ==
    \/ Begin("timer")
    \/ Fetch("timer")
    \/ Cluster("timer")
    \/ MergeAdd("timer", MaxIds)
    \/ MergeDel("timer")
    \/ LogRead("timer")
    \/ LogWrite("timer")
    \/ Prune("timer")
    \/ Recount("timer")
    \/ Fail("timer")
    \/ Return("timer")
    \/ Ingest
    \/ Recall
    \/ Tick

SpecServe == Init /\ [][NextServe]_vars

(***************************************************************************)
(* The timer's cycles one after the other, with no ingest and no failure,  *)
(* while the clock runs.  The scheduler fires the job at every interval,   *)
(* and a running job runs to its end.                                      *)
(***************************************************************************)
InitRepeat ==
    /\ now = 0
    /\ store \in SmallStores(now)
    /\ nextId = count(store) + 1
    /\ log = <<>>
    /\ deleted = {}
    /\ failures = 0
    /\ ran = FALSE
    /\ InitLocals
    /\ absorbed = [i \in DOMAIN store |-> {i}]
    /\ emitted = {}

TimerCycle ==
    \/ Begin("timer")
    \/ Fetch("timer")
    \/ Cluster("timer")
    \/ MergeAdd("timer", MaxPersisted + MaxIds)
    \/ MergeDel("timer")
    \/ LogRead("timer")
    \/ LogWrite("timer")
    \/ Prune("timer")
    \/ Recount("timer")
    \/ Return("timer")

NextRepeat ==
    \/ TimerCycle
    \/ Tick

\* The timer's call of run_compaction moves on to its next store call, or
\* the next call begins: every step of TimerCycle is such a step, and no
\* other step is.
TimerAdvances ==
    \E v \in {"idle", "fetch", "cluster", "merge", "merge_del", "log_read",
               "log_write", "prune", "recount", "done"} :
        /\ v # pc["timer"]
        /\ pc' = [pc EXCEPT !["timer"] = v]

SpecRepeat == InitRepeat /\ [][NextRepeat]_vars /\ WF_pc(TimerAdvances)

(***************************************************************************)
(* One GET /recall over a collection that earlier requests have filled.    *)
(***************************************************************************)
\* near-duplicates 30 and 105 days old, with and without a topic, up to a few
RecallKinds(clock) ==
    {KindT(t, 5, clock - DELETE_AGE_THRESHOLD_DAYS - d, tp) :
        t \in {"a", "b"}, d \in {0, 75}, tp \in {<<>>, <<"ml">>}}

\* an entry stamped by a wall clock that was ahead of the present one
\* (datetime.now is not monotonic, and the collection outlives the process)
FutureKinds(clock) == {Kind("a", 5, clock + ClockAhead)}

RecallStores(clock) ==
    {PersistedStore(f) :
        f \in UNION {[1..n -> RecallKinds(clock) \cup FutureKinds(clock)] :
                        n \in 0..MaxPersisted}}

InitRecall ==
    /\ now = MaxNow
    /\ store \in RecallStores(now)
    /\ nextId = count(store) + 1
    /\ log = <<>>
    /\ deleted = {}
    /\ failures = 0
    /\ ran = FALSE
    /\ InitLocals
    /\ absorbed = [i \in DOMAIN store |-> {i}]
    /\ emitted = {}

\* The first request after the start.
FirstRecall ==
    /\ recalled = NoRecall
    /\ \E q \in {"a", "c"}, k \in {1, 2, 50}, decay \in BOOLEAN,
          topic \in {"", "ml"} : recall(q, k, decay, topic)

NextRecall == FirstRecall

SpecRecall == InitRecall /\ [][NextRecall]_vars

(***************************************************************************)
(* One call of cosine_similarity on vectors of the grid.                   *)
(***************************************************************************)
InitCosine ==
    /\ store = EmptyStore
    /\ nextId = 1
    /\ now = 0
    /\ log = <<>>
    /\ deleted = {}
    /\ failures = 0
    /\ ran = FALSE
    /\ InitLocals
    /\ absorbed = [i \in DOMAIN store |-> {i}]
    /\ emitted = {}

FirstCall ==
    /\ similarity = NoCall
    /\ \E a, b \in GridVectors : CallCosine(a, b)

NextCosine == FirstCall

SpecCosine == InitCosine /\ [][NextCosine]_vars

(***************************************************************************)
(* Properties.                                                             *)
(***************************************************************************)
\* run_compaction has started for p and has not returned.
InFlight(p) == pc[p] \notin {"idle", "done", "failed"}

\* C1: at most one compaction cycle is in flight at any time: no state has
\* the timer's and the on-demand trigger's run_compaction both between
\* start and return.
C1_AtMostOneCycleInFlight ==
    \A p, q \in Procs : (InFlight(p) /\ InFlight(q)) => p = q

\* The cluster p's merge loop is at.
CurrentCluster(p) == clusters[p][ci[p]]

\* C2: in the state between add_memory and delete_memories of a merge,
\* either every original member of the cluster is in the store or the
\* merged entry is.
C2_MergeNeverLosesData ==
    \A p \in Procs :
        pc[p] = "merge_del" =>
            \/ SeqToSet(CurrentCluster(p).ids) \subseteq DOMAIN store
            \/ new_id[p][1] \in DOMAIN store

\* run_compaction of p holds the clusters it computed.
ClustersComputed(p) ==
    pc[p] \in {"merge", "merge_del", "log_read", "log_write", "prune",
               "recount"}

\* C3: the clusters the clustering step returned are pairwise disjoint, no
\* id is twice in one cluster, and each cluster has at least 2 and at most
\* MAX_CLUSTER_SIZE members, all of them from the snapshot.
C3_ClustersDisjointAndBounded ==
    \A p \in Procs :
        ClustersComputed(p) =>
            /\ \A k \in 1..Len(clusters[p]) :
                   /\ Len(clusters[p][k].ids) >= 2
                   /\ Len(clusters[p][k].ids) <= 10
                   /\ Cardinality(SeqToSet(clusters[p][k].ids))
                          = Len(clusters[p][k].ids)
                   /\ SeqToSet(clusters[p][k].ids)
                          \subseteq SeqToSet(all_data[p].ids)
            /\ \A k, l \in 1..Len(clusters[p]) :
                   k # l => SeqToSet(clusters[p][k].ids)
                              \cap SeqToSet(clusters[p][l].ids) = {}

\* C3's case: a snapshot of more than MAX_CLUSTER_SIZE near-duplicates gave
\* a full cluster and a second cluster beside it.
C3_Witness ==
    \E p \in Procs :
        /\ ClustersComputed(p)
        /\ Len(clusters[p]) >= 2
        /\ Len(clusters[p][1].ids) = 10
        /\ Len(clusters[p][2].ids) = 2

\* The three entries of snapshot d form a chain whose middle entry is at
\* position m: m is within SIM_THRESHOLD of both others, which are not within
\* SIM_THRESHOLD of each other.
ChainWithMiddle(d, m) ==
    /\ Len(d.ids) = 3
    /\ m \in 1..3
    /\ \A k \in (1..3) \ {m} :
           CosGE(d.embeddings[m], d.embeddings[k], SIM_THRESHOLD)
    /\ \A k, l \in (1..3) \ {m} :
           k # l => ~CosGE(d.embeddings[k], d.embeddings[l], SIM_THRESHOLD)

OneClusterOfAll(p) ==
    /\ Len(clusters[p]) = 1
    /\ SeqToSet(clusters[p][1].ids) = SeqToSet(all_data[p].ids)

\* C4 as stated: a chain A, B, C of three entries is returned as one cluster
\* of all three, in whatever order the snapshot lists them.
C4_ChainInEveryOrder ==
    \A p \in Procs :
        (ClustersComputed(p) /\ \E m \in 1..3 : ChainWithMiddle(all_data[p], m))
            => OneClusterOfAll(p)

\* C4, amended: a chain A, B, C of three entries is returned as one cluster
\* of all three in every order that does not list the middle entry B last;
\* with B last the clustering step returns one cluster of two entries.
C4_ChainUnlessMiddleLast ==
    \A p \in Procs :
        ClustersComputed(p) =>
            /\ (\E m \in 1..2 : ChainWithMiddle(all_data[p], m))
                   => OneClusterOfAll(p)
            /\ ChainWithMiddle(all_data[p], 3)
                   => /\ Len(clusters[p]) = 1
                      /\ Len(clusters[p][1].ids) = 2

\* C4's case: a chain listed as A, B, C has been clustered.
C4_Witness ==
    \E p \in Procs :
        /\ ClustersComputed(p)
        /\ ChainWithMiddle(all_data[p], 2)
        /\ OneClusterOfAll(p)

\* The weighted sum of cluster c's vectors is the zero vector.
ZeroWeightedSum(c) ==
    LET v == WeightedSum(c.embeddings, NormalizedWeights(c.metadatas))
    IN  ~v.nan /\ v.x = 0 /\ v.y = 0

\* C5: the merge of a cluster whose weighted sum is the zero vector is
\* aborted: no cycle gets past the write of a merged entry for such a
\* cluster, and no entry without a direction is in the store.
C5_DegenerateMergeAborted ==
    /\ \A p \in Procs :
           pc[p] \in {"merge_del", "log_read", "log_write"}
               => ~ZeroWeightedSum(CurrentCluster(p))
    /\ \A i \in DOMAIN store : ~store[i].embedding.nan

\* Position k of snapshot d.
PositionOf(d, id) == CHOOSE k \in 1..Len(d.ids) : d.ids[k] = id

\* C6: after the pruning step, each pruned entry still has another entry in
\* the store, not pruned itself, within DELETE_SIMILARITY_THRESHOLD of it.
C6_PruneKeepsARepresentative ==
    \A p \in Procs :
        pc[p] = "recount" =>
            \A k \in 1..Len(to_delete[p]) :
                \E i \in DOMAIN store :
                    /\ i # to_delete[p][k]
                    /\ CosGE(store[i].embedding,
                             all_data[p].embeddings[
                                 PositionOf(all_data[p], to_delete[p][k])],
                             22)

\* Position k of snapshot d is low in importance, old, and has another
\* position within 0.88 of it (importance in tenths, age in days,
\* similarity in 25ths).
Prunable(d, k) ==
    /\ d.metadatas[k].importance < 2
    /\ now - d.metadatas[k].timestamp > 30
    /\ \E j \in 1..Len(d.ids) :
           j # k /\ CosGE(d.embeddings[k], d.embeddings[j], 22)

\* C7: the pruning step marks exactly the snapshot entries with importance
\* below 0.2, age above 30 days and another snapshot entry at similarity
\* 0.88 or more, each of them once.
C7_PruneMarksExactly ==
    [][\A p \in Procs :
           (pc[p] = "prune" /\ pc'[p] = "recount") =>
               /\ SeqToSet(to_delete'[p])
                      = {all_data[p].ids[k] : k \in
                            {j \in 1..Len(all_data[p].ids) :
                                Prunable(all_data[p], j)}}
               /\ Cardinality(SeqToSet(to_delete'[p]))
                      = Len(to_delete'[p])]_vars

\* C7's case: the pruning step marked an entry and left unmarked, beside
\* it, a near-duplicate of importance exactly 0.2 and one of age exactly 30
\* days.
C7_Witness ==
    \E p \in Procs :
        /\ pc[p] = "recount"
        /\ to_delete[p] # <<>>
        /\ \E k, l \in 1..Len(all_data[p].ids) :
               /\ all_data[p].ids[k] \notin SeqToSet(to_delete[p])
               /\ all_data[p].ids[l] \notin SeqToSet(to_delete[p])
               /\ all_data[p].metadatas[k].importance = 2
               /\ now - all_data[p].metadatas[k].timestamp > 30
               /\ all_data[p].metadatas[l].importance < 2
               /\ now - all_data[p].metadatas[l].timestamp = 30
               /\ \E j \in 1..Len(all_data[p].ids) :
                      /\ j # k /\ j # l
                      /\ CosGE(all_data[p].embeddings[k],
                               all_data[p].embeddings[j], 22)
                      /\ CosGE(all_data[p].embeddings[l],
                               all_data[p].embeddings[j], 22)

\* No two entries of snapshot d are within t of each other.
NoPairWithin(d, t) ==
    \A k, l \in 1..Len(d.ids) :
        k # l => ~CosGE(d.embeddings[k], d.embeddings[l], t)

\* The cycle of p, about to return, merged nothing, pruned nothing and left
\* the store as its snapshot found it.
DidNothing(p) ==
    /\ merge_events[p] = <<>>
    /\ to_delete[p] = <<>>
    /\ get_all_memories(store) = all_data[p]

\* C8 as stated: a run that follows a completed run, on a store with no two
\* entries at similarity 0.92 or more, merges nothing and deletes nothing.
C8_IdempotentAboveSimThreshold ==
    \A p \in Procs :
        (pc[p] = "recount" /\ ran /\ NoPairWithin(all_data[p], 23))
            => DidNothing(p)

\* C8, amended: a run that follows a completed run, on a store with no two
\* entries at similarity 0.88 (DELETE_SIMILARITY_THRESHOLD) or more, merges
\* nothing and deletes nothing.
C8_IdempotentAboveDeleteThreshold ==
    \A p \in Procs :
        (pc[p] = "recount" /\ ran /\ NoPairWithin(all_data[p], 22))
            => DidNothing(p)

\* C8's case: a first run merged a cluster, and the run after it is about
\* to return from a store of several entries, no two of them similar.
C8_Witness ==
    \E p \in Procs :
        /\ pc[p] = "recount"
        /\ ran
        /\ log # <<>>
        /\ Len(all_data[p].ids) >= 2
        /\ NoPairWithin(all_data[p], 22)

\* C9: the caller of a cycle that failed after completed merges receives
\* the statistics of these merges.
C9_FailedCycleReportsPartialStats ==
    \A p \in Procs :
        (pc[p] = "failed" /\ merge_events[p] # <<>>)
            => /\ result[p].kind = "stats"
               /\ result[p].merge_events = merge_events[p]
               /\ result[p].clusters_merged = Len(merge_events[p])

\* p's cycle fails in this step.
Fails(p) == pc[p] # "failed" /\ pc'[p] = "failed"

\* C10: the step in which a cycle fails leaves the store and the merge log
\* as they are, and an id compaction has deleted stays deleted: no step
\* brings it back.
C10_NoRollbackNoUndelete ==
    [][/\ \A p \in Procs : Fails(p) => (store' = store /\ log' = log)
       /\ deleted \subseteq deleted'
       /\ deleted' \cap DOMAIN store' = {}]_vars

\* C10's case: a cycle has failed after a completed merge; the members it
\* merged are gone, and ids have been handed out since.
C10_Witness ==
    \E p \in Procs :
        /\ pc[p] = "failed"
        /\ merge_events[p] # <<>>
        /\ \A k \in 1..Len(merge_events[p]) :
               SeqToSet(merge_events[p][k].merged_ids) \cap DOMAIN store = {}
        /\ deleted # {}
        /\ \E i \in DOMAIN store : \E j \in deleted : i > j

\* p's call leaves the fetch of its snapshot in this step.
LeavesFetch(p) == pc[p] = "fetch" /\ pc'[p] # "fetch"

\* C11: a cycle whose snapshot has fewer than 2 entries returns at once, with
\* after_count = before_count, no merge, no deletion and no event, and its
\* step writes nothing to the store and appends nothing to the merge log
\* (unless the fetch itself raises).
C11_ShortSnapshotIsNoOp ==
    [][\A p \in Procs :
           (LeavesFetch(p) /\ count(store) < 2 /\ pc'[p] # "failed") =>
               /\ pc'[p] = "done"
               /\ result'[p].kind = "stats"
               /\ result'[p].after_count = result'[p].before_count
               /\ result'[p].before_count = before_count[p]
               /\ result'[p].clusters_merged = 0
               /\ result'[p].items_deleted = 0
               /\ result'[p].merge_events = <<>>
               /\ store' = store
               /\ log' = log
               /\ nextId' = nextId]_vars

\* C11's case: a cycle returned from a store of one entry, the only entry
\* ever stored, which arrived after the cycle had counted an empty store.
C11_Witness ==
    \E p \in Procs :
        /\ pc[p] = "done"
        /\ result[p].kind = "stats"
        /\ result[p].before_count = 0
        /\ count(store) = 1
        /\ nextId = 2
        /\ log = <<>>

\* p's call returns its statistics in this step.
ReturnsStats(p) == pc[p] = "recount" /\ pc'[p] = "done"

\* C12: a cycle during which no ingest runs returns after_count <=
\* before_count, and after_count is the number of entries in the store when
\* the cycle ends.
C12_NeverGrows ==
    [][\A p \in Procs :
           ReturnsStats(p) =>
               /\ result'[p].after_count <= result'[p].before_count
               /\ result'[p].after_count = count(store')]_vars

\* How many clusters p's merge loop has finished the store calls of.
ClustersMerged(p) ==
    IF pc[p] \in {"merge", "merge_del"} THEN ci[p] - 1
    ELSE IF pc[p] \in {"log_read", "log_write"} THEN ci[p]
    ELSE Len(clusters[p])

\* C13: the events of a cycle are, one for one and in discovery order, the
\* clusters it has merged: merged_ids are the cluster's ids, cluster_size
\* their number, new_id the id of the entry written for the cluster (not an
\* id of the snapshot, different for each event, and the id of a merged
\* entry as long as it is stored); the returned
\* clusters_merged is the number of events returned.
C13_OneEventPerCluster ==
    \A p \in Procs :
        /\ ClustersComputed(p) =>
               /\ Len(merge_events[p]) = ClustersMerged(p)
               /\ \A k \in 1..Len(merge_events[p]) :
                      LET e == merge_events[p][k]
                      IN  /\ e.merged_ids = clusters[p][k].ids
                          /\ e.cluster_size = Len(e.merged_ids)
                          /\ e.new_id \in DOMAIN store \cup deleted
                          /\ e.new_id \notin SeqToSet(all_data[p].ids)
                          /\ e.new_id \in DOMAIN store =>
                                 /\ store[e.new_id].metadata.source
                                        = "compaction"
                                 /\ store[e.new_id].metadata.merge_count
                                        >= e.cluster_size - 1
                          /\ \A l \in 1..Len(merge_events[p]) :
                                 l # k => merge_events[p][l].new_id # e.new_id
        /\ (pc[p] = "done" /\ result[p].kind = "stats") =>
               result[p].clusters_merged = Len(result[p].merge_events)

\* C13's case: a cycle has merged two clusters and is about to return.
C13_Witness ==
    \E p \in Procs :
        /\ pc[p] = "recount"
        /\ Len(clusters[p]) = 2
        /\ Len(merge_events[p]) = 2
        /\ merge_events[p][1].cluster_size = 10
        /\ merge_events[p][2].cluster_size = 2

\* The merge_count values of cluster c's members, added up.
MemberMergeCounts(c) ==
    SumSeq([k \in 1..Len(c.metadatas) |-> c.metadatas[k].merge_count])

\* A merged entry just written has merge_count = the sum of its members'
\* merge_count plus (cluster_size - 1).
MergeCountFormula ==
    \A p \in Procs :
        (pc[p] = "merge_del" /\ new_id[p][1] \in DOMAIN store) =>
            store[new_id[p][1]].metadata.merge_count
                = MemberMergeCounts(CurrentCluster(p))
                    + Len(CurrentCluster(p).ids) - 1

FirstNewest(c, k) ==
    /\ \A m \in 1..Len(c.metadatas) :
           c.metadatas[m].timestamp <= c.metadatas[k].timestamp
    /\ \A m \in 1..(k - 1) :
           c.metadatas[m].timestamp < c.metadatas[k].timestamp

\* C15: a merged entry just written has the text, the timestamp and the
\* topic (or none) of the first cluster member with the latest timestamp;
\* its timestamp is at least that of every member.
C15_RepresentativeIsFirstNewest ==
    \A p \in Procs :
        (pc[p] = "merge_del" /\ new_id[p][1] \in DOMAIN store) =>
            LET c == CurrentCluster(p)
                e == store[new_id[p][1]]
            IN  /\ \E k \in 1..Len(c.ids) :
                       /\ FirstNewest(c, k)
                       /\ e.document = c.documents[k]
                       /\ e.metadata.timestamp = c.metadatas[k].timestamp
                       /\ e.metadata.topic = c.metadatas[k].topic
                /\ \A m \in 1..Len(c.ids) :
                       e.metadata.timestamp >= c.metadatas[m].timestamp

\* C15's case: a merged entry was written for a cluster whose first member
\* is older than the two after it, which share the latest timestamp and
\* differ in text and in topic.
C15_Witness ==
    \E p \in Procs :
        /\ pc[p] = "merge_del"
        /\ new_id[p][1] \in DOMAIN store
        /\ LET c == CurrentCluster(p)
           IN  /\ Len(c.ids) = 3
               /\ FirstNewest(c, 2)
               /\ c.metadatas[3].timestamp = c.metadatas[2].timestamp
               /\ c.documents[3] # c.documents[2]
               /\ c.metadatas[3].topic # c.metadatas[2].topic
               /\ c.metadatas[2].topic # <<>>

\* C16: no step changes what is stored under an id that is in the store
\* before and after it: an entry's text, vector and metadata stay as they
\* were written until the entry is deleted.
C16_NoInPlaceMutation ==
    [][\A i \in DOMAIN store \cap DOMAIN store' : store'[i] = store[i]]_vars

\* C16's case: a recall has been answered while the timer's cycle stands
\* between writing a merged entry and deleting its members, one of which is
\* in the answer.
C16_Witness ==
    /\ pc["timer"] = "merge_del"
    /\ recalled.kind = "results"
    /\ recalled.results # <<>>
    /\ recalled.results[1].id \in SeqToSet(CurrentCluster("timer").ids)
    /\ new_id["timer"][1] \in SeqToSet(recalled.retrieved)

\* How often event e is in the merge log.
TimesLogged(e) == Cardinality({k \in 1..Len(log) : log[k] = e})

\* C17: the merge log holds every event whose log_merge call has returned,
\* each exactly once, and nothing else; the events of one cycle are in it in
\* the order the cycle generated them.
C17_LogIsAppendOnly ==
    /\ \A e \in emitted : TimesLogged(e) = 1
    /\ \A k \in 1..Len(log) : log[k] \in emitted
    /\ \A p \in Procs :
           \A k, l \in 1..Len(merge_events[p]) :
               (k < l /\ merge_events[p][l] \in emitted) =>
                   \E m, n \in 1..Len(log) :
                       /\ m < n
                       /\ log[m] = merge_events[p][k]
                       /\ log[n] = merge_events[p][l]

\* The merge events known: those logged, and those the cycles now running
\* or just ended have generated.
EventsGenerated ==
    emitted \cup UNION {SeqToSet(merge_events[p]) : p \in Procs}

\* C18: no entry id is in the merged_ids of two different merge events.
C18_NoDoubleMerge ==
    \A e, f \in EventsGenerated :
        e # f => SeqToSet(e.merged_ids) \cap SeqToSet(f.merged_ids) = {}

\* The smaller of two numbers.
Least(a, b) == IF a <= b THEN a ELSE b

\* C19: recall asks the store for min(2k, 100) candidates, so it gets that
\* many or, when fewer entries match, all of them; it returns min(k, number
\* of candidates) results, none without candidates.
C19_RecallReturnsKOfRetrieved ==
    [][(recalled' # recalled /\ recalled'.kind = "results") =>
        LET r == recalled'.request[1]
            matching == {i \in DOMAIN store :
                            r.topic = "" \/ store[i].metadata.topic = <<r.topic>>}
        IN  /\ Len(recalled'.retrieved)
                   = Least(Least(2 * r.k, 100), Cardinality(matching))
            /\ Len(recalled'.results)
                   = Least(r.k, Len(recalled'.retrieved))
            /\ recalled'.retrieved = <<>> => recalled'.results = <<>>]_vars

\* C19's case: the store had three matching entries, was asked for two and
\* returned two, and recall with k = 1 returned one result.
C19_Witness ==
    /\ recalled.kind = "results"
    /\ recalled.request[1].k = 1
    /\ Cardinality(DOMAIN store) = 3
    /\ Len(recalled.retrieved) = 2
    /\ Len(recalled.results) = 1

\* The place of entry id in the store's answer.
RetrievalRank(answer, id) ==
    CHOOSE i \in 1..Len(answer.retrieved) : answer.retrieved[i] = id

\* The final_score of entry id for the request of the answer, in
\* ten-millionths: raw_similarity * (0.7 * recency_weight + 0.3 * importance).
ScoreOf(answer, id) ==
    LET r   == answer.request[1]
        e   == store[id]
        raw == raw_similarity(embed_single(r.q), e.embedding).v
        age == calculate_age_days(e.metadata.timestamp)
        rec == IF ~r.decay THEN 100
               ELSE IF 100 - age > 0 THEN 100 - age ELSE 0
    IN  raw * (7 * rec + 30 * e.metadata.importance)

\* C20: the returned list is in non-increasing order of final_score, results
\* of equal final_score keep the order in which the store returned them, and
\* no retrieved candidate left out would have come before a returned one.
C20_SortedStableTopK ==
    [][(recalled' # recalled /\ recalled'.kind = "results") =>
        LET a   == recalled'
            res == a.results
            out == {id \in SeqToSet(a.retrieved) :
                       \A i \in 1..Len(res) : res[i].id # id}
        IN  /\ \A i \in 1..Len(res) :
                   /\ res[i].id \in SeqToSet(a.retrieved)
                   /\ res[i].score.v = ScoreOf(a, res[i].id)
            /\ \A i, j \in 1..Len(res) :
                   i < j =>
                       \/ res[i].score.v > res[j].score.v
                       \/ /\ res[i].score.v = res[j].score.v
                          /\ RetrievalRank(a, res[i].id)
                                 < RetrievalRank(a, res[j].id)
            /\ \A i \in 1..Len(res) : \A id \in out :
                   \/ res[i].score.v > ScoreOf(a, id)
                   \/ /\ res[i].score.v = ScoreOf(a, id)
                      /\ RetrievalRank(a, res[i].id) < RetrievalRank(a, id)]_vars

\* C20's case: the store returned its three candidates in an order that is
\* not the order of their scores, two of them score the same, and recall
\* returned two results of equal score and left the third out.
C20_Witness ==
    /\ recalled.kind = "results"
    /\ Len(recalled.retrieved) = 3
    /\ Len(recalled.results) = 2
    /\ recalled.results[1].score.v = recalled.results[2].score.v
    /\ recalled.results[1].id # recalled.retrieved[1]
    /\ recalled.results[1].score.v > 0

\* C21: final_score = raw_similarity * (0.7 * recency_weight + 0.3 *
\* importance), with recency_weight = max(0, 1 - 0.01 * age_days) when decay
\* is enabled and 1.0 when it is disabled.  So without decay two results that
\* differ only in timestamp score the same, and with decay a result older
\* than 100 days scores raw_similarity * 0.3 * importance.
C21_ScoringFormula ==
    [][(recalled' # recalled /\ recalled'.kind = "results") =>
        LET r   == recalled'.request[1]
            res == recalled'.results
        IN  /\ \A i \in 1..Len(res) :
                   LET x   == res[i]
                       rec == IF ~r.decay THEN 100
                              ELSE IF 100 - x.age_days > 0
                                   THEN 100 - x.age_days ELSE 0
                   IN  /\ x.age_days = now - x.metadata.timestamp
                       /\ x.score.v = x.raw_similarity.v
                                        * (7 * rec + 30 * x.metadata.importance)
                       /\ (r.decay /\ x.age_days > 100) =>
                              x.score.v = x.raw_similarity.v
                                             * 30 * x.metadata.importance
            /\ ~r.decay =>
                   \A i, j \in 1..Len(res) :
                       (/\ res[i].document = res[j].document
                        /\ res[i].raw_similarity = res[j].raw_similarity
                        /\ [res[i].metadata EXCEPT !.timestamp = 0]
                              = [res[j].metadata EXCEPT !.timestamp = 0])
                           => res[i].score = res[j].score]_vars

\* C21's case: without decay, recall returned two results that differ only
\* in timestamp, one of them older than 100 days, with one positive score.
C21_Witness ==
    /\ recalled.kind = "results"
    /\ ~recalled.request[1].decay
    /\ Len(recalled.results) = 2
    /\ recalled.results[1].document = recalled.results[2].document
    /\ recalled.results[1].metadata.timestamp
          # recalled.results[2].metadata.timestamp
    /\ [recalled.results[1].metadata EXCEPT !.timestamp = 0]
          = [recalled.results[2].metadata EXCEPT !.timestamp = 0]
    /\ \E i \in 1..2 : recalled.results[i].age_days > 100
    /\ recalled.results[1].score.v > 0

\* C22: an entry stamped in the future counts as age 0: no result of recall
\* has a negative age_days, or a final_score above what recency weight 1
\* gives, raw_similarity * (0.7 + 0.3 * importance).
C22_AgeNeverNegative ==
    recalled.kind = "results" =>
        \A i \in 1..Len(recalled.results) :
            LET x == recalled.results[i]
            IN  /\ x.age_days >= 0
                /\ x.raw_similarity.v >= 0 =>
                       x.score.v <= x.raw_similarity.v
                                       * (700 + 30 * x.metadata.importance)

\* C23: for a zero-norm argument cosine_similarity raises InvalidVector; it
\* returns no value, NaN or other.
C23_ZeroNormRaises ==
    (/\ similarity.outcome # "none"
     /\ (Norm2(similarity.a) = 0 \/ Norm2(similarity.b) = 0))
        => similarity.outcome = "InvalidVector"

\* snip holds the first characters of text.
IsPrefixOf(snip, text) == snip.of = text /\ snip.chars <= TextLength(text)

\* C24: the text of a logged merge event is a prefix, of at most 100
\* characters, of the text stored in the merged entry the event names.
C24_SnippetOfMergedEntry ==
    \A e \in emitted :
        /\ e.representative_text.chars <= 100
        /\ e.new_id \in DOMAIN store =>
               IsPrefixOf(e.representative_text, store[e.new_id].document)

\* Entry i was written by a merge, not by an ingest.
FromMerge(i) == i \notin absorbed[i]

\* C25: every stored entry has last_merged_at exactly when its merge_count
\* is positive; an ingested entry has merge_count 0 and no last_merged_at, an
\* entry written by a merge has merge_count >= 1, last_merged_at and source
\* "compaction".
C25_LastMergedAtIffMerged ==
    \A i \in DOMAIN store :
        LET m == store[i].metadata
        IN  /\ (m.last_merged_at # <<>>) <=> (m.merge_count > 0)
            /\ ~FromMerge(i) => (m.merge_count = 0 /\ m.last_merged_at = <<>>)
            /\ FromMerge(i) => /\ m.merge_count >= 1
                               /\ m.last_merged_at # <<>>
                               /\ m.source = "compaction"

\* C25's case: the store holds an entry written by a merge next to an entry
\* ingested after it.
C25_Witness ==
    \E i, j \in DOMAIN store :
        /\ FromMerge(i)
        /\ ~FromMerge(j)
        /\ j > i

\* The ids the cycle of p has merged away so far.
MergedAway(p) ==
    UNION {SeqToSet(merge_events[p][k].merged_ids) :
              k \in 1..Len(merge_events[p])}

\* C26: the pruning step comes after every merge of the cycle and decides
\* from the snapshot alone: a snapshot entry is marked when it is low, old
\* and has a near-duplicate in the snapshot, whether or not the entry or the
\* near-duplicate is still stored; the delete call removes the marked ids
\* that are stored, ignores the others, and the cycle goes on.
C26_PruneDecidesFromSnapshot ==
    [][\A p \in Procs :
           (pc[p] = "prune" /\ pc'[p] \notin {"prune", "failed"}) =>
               /\ Len(merge_events[p]) = Len(clusters[p])
               /\ \A k \in 1..Len(all_data[p].ids) :
                      (all_data[p].ids[k] \in SeqToSet(to_delete'[p]))
                          <=> Prunable(all_data[p], k)
               /\ DOMAIN store' = DOMAIN store \ SeqToSet(to_delete'[p])
               /\ \A i \in DOMAIN store' : store'[i] = store[i]
               /\ pc'[p] = "recount"]_vars

\* C26's case: the pruning step marked an entry that a merge of the same
\* cycle had already deleted, and the cycle went on to its recount.
C26_Witness ==
    \E p \in Procs :
        /\ pc[p] = "recount"
        /\ SeqToSet(to_delete[p]) \cap MergedAway(p) # {}
        /\ SeqToSet(to_delete[p]) \cap DOMAIN store = {}

\* The ids of the snapshot of p that are in one of its clusters.
Clustered(p) ==
    UNION {SeqToSet(clusters[p][k].ids) : k \in 1..Len(clusters[p])}

\* C27: the returned clusters are in the snapshot order of their first
\* members; the members of a cluster are in strictly increasing snapshot
\* position; every member but the first is within SIM_THRESHOLD (0.92) of a
\* member before it in the cluster; and an entry in no cluster has no entry
\* after it in the snapshot within SIM_THRESHOLD, except members of clusters
\* that start before it.
C27_ForwardGreedyScan ==
    \A p \in Procs :
        ClustersComputed(p) =>
            LET d  == all_data[p]
                cs == clusters[p]
            IN  /\ \A k, l \in 1..Len(cs) :
                       k < l => PositionOf(d, cs[k].ids[1])
                                   < PositionOf(d, cs[l].ids[1])
                /\ \A k \in 1..Len(cs) : \A m, n \in 1..Len(cs[k].ids) :
                       m < n => PositionOf(d, cs[k].ids[m])
                                   < PositionOf(d, cs[k].ids[n])
                /\ \A k \in 1..Len(cs) : \A n \in 2..Len(cs[k].ids) :
                       \E m \in 1..(n - 1) :
                           CosGE(d.embeddings[PositionOf(d, cs[k].ids[n])],
                                 d.embeddings[PositionOf(d, cs[k].ids[m])], 23)
                /\ \A i \in 1..Len(d.ids) :
                       d.ids[i] \notin Clustered(p) =>
                           \A j \in (i + 1)..Len(d.ids) :
                               CosGE(d.embeddings[i], d.embeddings[j], 23) =>
                                   \E k \in 1..Len(cs) :
                                       /\ d.ids[j] \in SeqToSet(cs[k].ids)
                                       /\ PositionOf(d, cs[k].ids[1]) < i

\* C27's case: the scan from a seed found no match because the entry within
\* SIM_THRESHOLD of it, later in the snapshot, was already in the cluster of
\* an earlier seed: the seed is in no cluster.
C27_Witness ==
    \E p \in Procs :
        /\ ClustersComputed(p)
        /\ \E i \in 1..Len(all_data[p].ids) :
               /\ all_data[p].ids[i] \notin Clustered(p)
               /\ \E j \in (i + 1)..Len(all_data[p].ids) :
                      /\ all_data[p].ids[j] \in Clustered(p)
                      /\ CosGE(all_data[p].embeddings[i],
                               all_data[p].embeddings[j], 23)

\* C28: a cycle removes from the store only ids of the snapshot it fetched,
\* and lists only such ids in its merge events; a step of no cycle removes
\* nothing.  So an entry ingested after the snapshot was fetched is not
\* deleted, merged or listed by that cycle.
C28_OnlySnapshotIdsDeleted ==
    [][/\ \A p \in Procs :
              pc'[p] # pc[p] =>
                  /\ (DOMAIN store \ DOMAIN store')
                         \subseteq SeqToSet(all_data[p].ids)
                  /\ \A k \in 1..Len(merge_events'[p]) :
                         SeqToSet(merge_events'[p][k].merged_ids)
                             \subseteq SeqToSet(all_data[p].ids)
       /\ (\A p \in Procs : pc'[p] = pc[p]) =>
              DOMAIN store \subseteq DOMAIN store']_vars

\* C28's case: the timer's cycle has merged and pruned, and an entry ingested
\* after the cycle fetched its snapshot is in the store.
C28_Witness ==
    /\ pc["timer"] = "recount"
    /\ merge_events["timer"] # <<>>
    /\ \E i \in DOMAIN store :
           /\ ~FromMerge(i)
           /\ \A k \in 1..Len(all_data["timer"].ids) :
                  all_data["timer"].ids[k] < i

\* The sum of (cluster_size - 1) over the events.
RECURSIVE AbsorbedByMerges(_)
AbsorbedByMerges(events) ==
    IF events = <<>> THEN 0
    ELSE Head(events).cluster_size - 1 + AbsorbedByMerges(Tail(events))

C30_SettledForever ==
    [][settled # <<>> => store' = store]_vars

\* Entry i of the store was no older than DELETE_AGE_THRESHOLD_DAYS (30
\* days) at time t and is older at time u.
CrossedAgeThreshold(i, t, u) ==
    /\ t - store[i].metadata.timestamp <= 30
    /\ u - store[i].metadata.timestamp > 30

\* C30, amended: a cycle that reports a merge or a deletion returns a lower
\* after_count than before_count; some cycle comes to its end without having
\* merged or deleted anything; and after it no step changes the store as long as
\* no stored entry has grown older than DELETE_AGE_THRESHOLD_DAYS since.
C30_ConvergesUntilAgesCross ==
    /\ [][\A p \in Procs :
              (pc[p] = "recount" /\ pc'[p] = "done"
                 /\ (result'[p].clusters_merged > 0
                       \/ result'[p].items_deleted > 0))
                  => result'[p].after_count < result'[p].before_count]_vars
    /\ [][(/\ settled # <<>>
           /\ \A i \in DOMAIN store :
                  ~CrossedAgeThreshold(i, settled[1], now))
              => store' = store]_vars
    /\ <>(settled # <<>>)

\* C30's case: cycles have merged or pruned entries, and a cycle after them
\* returned without merging or deleting, with entries left in the store.
C30_Witness ==
    /\ deleted # {}
    /\ settled # <<>>
    /\ store # EmptyStore
    /\ pc["timer"] = "done"

====
